---- MODULE Spec2Model ----
(***************************************************************************)
(* The retail assistant's orchestration graph (src/src/agent) driven by    *)
(* the chat loop of src/src/main.py: router -> plan -> execute ->          *)
(* collect_results -> reflect -> synthesize / respond, over the session    *)
(* state AgentState kept per thread by the checkpointer.                   *)
(*                                                                         *)
(* Text is modelled as a sequence of tokens (each token stands for a run   *)
(* of characters), so that concatenation, prefixes, JSON encoding and the  *)
(* stripping of a directory path are computed and not assumed.             *)
(***************************************************************************)
EXTENDS Integers, Sequences, FiniteSets, TLC

VARIABLES
    messages,             \* AgentState.messages (add_messages reducer)
    depth,                \* AgentState.depth
    max_iterations,       \* AgentState.max_iterations
    iteration,            \* AgentState.iteration
    collected_results,    \* AgentState.collected_results
    todo,                 \* AgentState.todo
    reflection,           \* AgentState.reflection
    reflection_satisfied, \* AgentState.reflection_satisfied: <<>> while the key is absent, <<b>> once set
    rag_sources,          \* AgentState.rag_sources
    active,               \* the nodes the graph has scheduled to run next; {} between turns
    last_node,            \* the node that ran last (START after the turn's input was applied)
    initial_state,        \* the chat loop's initial_state: depth and max_iterations
    collect_runs,         \* runs of collect_results since the last tool execution
    error,                \* the exception that ended the current step, "" if none
    database,             \* db/sales.db: the committed contents of the file
    sql_call,             \* the query_sql call examined last: its input and its outcome
    plan_context,         \* plan: the "Reflection from previous iteration" part of the last prompt of the turn
    input_disabled,       \* GUI: chat_input.disabled
    current_thread_id,    \* GUI: self.current_thread_id
    worker,               \* GUI: the run_agent_turn worker that streams the graph, if any
    finishing,            \* GUI: workers that have still to post _finish_turn
    turn_panels           \* GUI: Assistant and Error panels written since the last question

vars == <<messages, depth, max_iterations, iteration, collected_results, todo,
          reflection, reflection_satisfied, rag_sources, active, last_node,
          initial_state, collect_runs, error, database, sql_call, plan_context,
          input_disabled, current_thread_id, worker, finishing, turn_panels>>

\* the state of the SQL tool examined on its own
sqlvars == <<database, sql_call>>

\* the state of the GUI around the graph
guivars == <<input_disabled, current_thread_id, worker, finishing, turn_panels>>

----------------------------------------------------------------------------
(* Bounds of the model *)

\* turns (user questions) per thread
MaxTurns == 2
\* tool invocations one plan message may carry
MaxCalls == 2
\* tool results per thread whose tool and output vary freely; once a thread
\* holds this many, the planner only asks for single query_sql calls and
\* they return the zero-rows message
MaxToolMsgs == 2
\* planning rounds one turn may take in the model (above 2 * 3, the largest
\* max_iterations the depth setting yields)
RoundCap == 7
\* repeated runs of collect_results over one frozen history
MaxCollectRuns == 3
\* turns per thread under the fair specification
MaxFairTurns == 1
\* entries of rag_sources when synthesize is examined on its own
MaxSources == 4
\* rows beyond the row limit that a table of the database may hold
MaxExtraRows == 1
\* query_sql calls in a row when the tool is examined on its own
MaxSqlCalls == 2
\* turns per thread in the GUI
MaxGuiTurns == 2
\* questions submitted on the followed thread when the worker thread and its
\* callbacks are examined
MaxWorkerTurns == 2
\* tool calls in a history when the worker thread is examined
MaxWorkerCalls == 1
\* <tabledata> blocks in an answer text when rendering is examined on its own
MaxBlocks == 2
\* tool invocations the planner requests per thread in the GUI
MaxGuiCalls == 1

----------------------------------------------------------------------------
(* Text helpers *)

Min(a, b) == IF a <= b THEN a ELSE b

Max(a, b) == IF a >= b THEN a ELSE b

StartsWith(s, p) == Len(s) >= Len(p) /\ SubSeq(s, 1, Len(p)) = p

IsPrefix(s, t) == Len(s) <= Len(t) /\ SubSeq(t, 1, Len(s)) = s

SetMax(S) == CHOOSE x \in S : \A y \in S : y <= x

\* Path(str(src)).name: the last component of a path, directories stripped
RECURSIVE StripTrailingSep(_)
StripTrailingSep(p) ==
    IF Len(p) > 1 /\ p[Len(p)] = "/" THEN StripTrailingSep(SubSeq(p, 1, Len(p) - 1))
    ELSE p

PathNameKeepDirs(p) == p

PathName(p) ==
    LET q == StripTrailingSep(p)
        seps == {i \in 1..Len(q) : q[i] = "/"}
    IN  IF seps = {} THEN q ELSE SubSeq(q, SetMax(seps) + 1, Len(q))

----------------------------------------------------------------------------
(* JSON text: json.dumps and json.loads over a bounded universe of values *)

Answers == {<<"silk", " coat">>}

SourcePaths == {<<"7021.pdf">>, <<"docs", "/", "7021.pdf">>, <<"235664.pdf">>}

SourceLists == {<<>>} \cup {<<p>> : p \in SourcePaths}
               \cup {<<p, q>> : p \in SourcePaths, q \in SourcePaths}

JsonObject(keys, answer, used_sources) ==
    [kind |-> "object", keys |-> keys, answer |-> answer, used_sources |-> used_sources]

JsonScalar(kind) ==
    [kind |-> kind, keys |-> {}, answer |-> <<>>, used_sources |-> <<>>]

JsonValues ==
    {JsonObject({"answer", "used_sources"}, a, l) : a \in Answers, l \in SourceLists}
    \cup {JsonObject({"answer"}, a, <<>>) : a \in Answers}
    \cup {JsonObject({"used_sources"}, <<>>, l) : l \in SourceLists}
    \cup {JsonObject({}, <<>>, <<>>)}
    \cup {JsonScalar("null"), JsonScalar("array"), JsonScalar("string")}

RECURSIVE JoinSources(_)
JoinSources(l) ==
    IF l = <<>> THEN <<>>
    ELSE <<"\"">> \o l[1] \o <<"\"">>
         \o (IF Len(l) > 1 THEN <<", ">> ELSE <<>>) \o JoinSources(Tail(l))

json_dumps(v) ==
    IF v.kind = "null" THEN <<"null">>
    ELSE IF v.kind = "array" THEN <<"[", "]">>
    ELSE IF v.kind = "string" THEN <<"\"", "text", "\"">>
    ELSE <<"{">>
         \o (IF "answer" \in v.keys
             THEN <<"\"answer\": ", "\"">> \o v.answer \o <<"\"">> ELSE <<>>)
         \o (IF v.keys = {"answer", "used_sources"} THEN <<", ">> ELSE <<>>)
         \o (IF "used_sources" \in v.keys
             THEN <<"\"used_sources\": ", "[">> \o JoinSources(v.used_sources) \o <<"]">>
             ELSE <<>>)
         \o <<"}">>

\* the JSON texts of the universe, each with the value it encodes
JsonTexts == {[text |-> json_dumps(v), value |-> v] : v \in JsonValues}

\* json.loads: the value whose JSON text is s, or a JSONDecodeError
json_loads(s) ==
    IF \E t \in JsonTexts : t.text = s
    THEN [ok |-> TRUE, value |-> (CHOOSE t \in JsonTexts : t.text = s).value]
    ELSE [ok |-> FALSE, value |-> JsonScalar("null")]

----------------------------------------------------------------------------
(* Messages *)

ToolNames == {"query_sql", "query_rag"}

HumanMessage(content) ==
    [type |-> "human", name |-> "", content |-> content, tool_calls |-> <<>>, tool_call_id |-> 0]

AIMessage(content, tool_calls) ==
    [type |-> "ai", name |-> "", content |-> content, tool_calls |-> tool_calls, tool_call_id |-> 0]

ToolMessage(name, content, id) ==
    [type |-> "tool", name |-> name, content |-> content, tool_calls |-> <<>>, tool_call_id |-> id]

\* the add_messages reducer on messages with fresh identifiers
\* the update taking the place of the history
add_messages_overwrite(left, right) == right

add_messages(left, right) == left \o right

CountType(msgs, t) == Cardinality({i \in 1..Len(msgs) : msgs[i].type = t})

\* index of the last message of type t at or below i, 0 if none
RECURSIVE LastIndexOfType(_, _, _)
LastIndexOfType(msgs, t, i) ==
    IF i = 0 THEN 0
    ELSE IF msgs[i].type = t THEN i
    ELSE LastIndexOfType(msgs, t, i - 1)

\* index of the last user message, 0 if none
LastHumanIndex(msgs) == LastIndexOfType(msgs, "human", Len(msgs))

----------------------------------------------------------------------------
(* The tools *)

\* str.strip on a token text: leading and trailing blank tokens removed
RECURSIVE strip(_)
strip(s) ==
    IF s # <<>> /\ s[1] = " " THEN strip(Tail(s))
    ELSE IF s # <<>> /\ s[Len(s)] = " " THEN strip(SubSeq(s, 1, Len(s) - 1))
    ELSE s

\* str.upper on one token
UpperToken(t) ==
    IF t \in {"select", "Select", "SELECT"} THEN "SELECT"
    ELSE IF t \in {"delete", "DELETE"} THEN "DELETE"
    ELSE IF t \in {"insert", "INSERT"} THEN "INSERT"
    ELSE IF t \in {"update", "UPDATE"} THEN "UPDATE"
    ELSE IF t \in {"drop", "DROP"} THEN "DROP"
    ELSE IF t \in {"with", "WITH"} THEN "WITH"
    ELSE t

upper(s) == [i \in 1..Len(s) |-> UpperToken(s[i])]

SqlRejected == <<"Error: only SELECT queries are allowed.">>

SqlZeroRows == <<"Query returned 0 rows.">>

\* rows[:200] and len(rows) > 200
RowLimit == 200

\* no query_sql call examined yet
NoCall == [n |-> 0]

\* the sales database with n rows in its table
SalesDb(n) ==
    [exists |-> TRUE, columns |-> <<"name", "revenue">>,
     rows |-> [i \in 1..n |-> <<"coat", ToString(i)>>]]

\* the engine on one statement: cursor.execute and cursor.fetchall. exc is
\* the exception it raises ("" if none), db the committed contents once the
\* connection is gone: a DELETE, INSERT or UPDATE runs in a transaction
\* that is never committed, a DROP TABLE is committed as it runs
sqlite_execute(stmt, db) ==
    LET none == [exc |-> "", columns |-> <<>>, rows |-> <<>>, db |-> db]
        failed == [none EXCEPT !.exc = "OperationalError"]
        kw == IF stmt = <<>> THEN "" ELSE UpperToken(stmt[1])
        rest == IF stmt = <<>> THEN <<>> ELSE Tail(stmt)
    IN  IF stmt = <<>> THEN none
        ELSE IF ~db.exists THEN failed
        ELSE IF kw = "SELECT" /\ rest = <<" * from sales">>
        THEN [none EXCEPT !.columns = db.columns, !.rows = db.rows]
        ELSE IF kw = "SELECT" /\ rest = <<" * from sales", " where 1 = 0">>
        THEN [none EXCEPT !.columns = db.columns]
        ELSE IF kw \in {"DELETE", "UPDATE", "INSERT"} /\ rest \in
                {<<" from sales">>, <<" sales set revenue = 0">>, <<" into sales values ('hat', 1)">>}
        THEN none
        ELSE IF kw = "DROP" /\ rest = <<" table sales">>
        THEN [none EXCEPT !.db = [db EXCEPT !.exists = FALSE, !.rows = <<>>]]
        ELSE failed

\* " | ".join(cells)
RECURSIVE JoinCells(_)
JoinCells(cells) ==
    IF cells = <<>> THEN <<>>
    ELSE IF Len(cells) = 1 THEN <<cells[1]>>
    ELSE <<cells[1], " | ">> \o JoinCells(Tail(cells))

\* "-" * len(header)
Dashes(header) == [i \in 1..Len(header) |-> "-"]

\* the lines of rows lo..hi, each after a line break
RECURSIVE RowLinesOf(_, _, _)
RowLinesOf(rows, lo, hi) ==
    IF lo > hi THEN <<>>
    ELSE IF lo = hi THEN <<"\n">> \o JoinCells(rows[lo])
    ELSE LET mid == (lo + hi) \div 2
         IN  RowLinesOf(rows, lo, mid) \o RowLinesOf(rows, mid + 1, hi)

\* one line per row, each after a line break
RowLines(rows) == RowLinesOf(rows, 1, Len(rows))

TruncationNotice(n) ==
    <<"\n", "... (", ToString(n), " total rows, showing first ", ToString(RowLimit), ")">>

\* the table with the notice wherever the limit is reached
SqlTableNoticeAtLimit(columns, rows) ==
    JoinCells(columns) \o <<"\n">> \o Dashes(JoinCells(columns))
    \o RowLines(SubSeq(rows, 1, Min(Len(rows), RowLimit)))
    \o (IF Len(rows) >= RowLimit THEN TruncationNotice(Len(rows)) ELSE <<>>)

\* the text table of a non-empty result: header, separator, one line for
\* each of the first 200 rows, the truncation notice if there are more
SqlTable(columns, rows) ==
    JoinCells(columns) \o <<"\n">> \o Dashes(JoinCells(columns))
    \o RowLines(SubSeq(rows, 1, Min(Len(rows), RowLimit)))
    \o (IF Len(rows) > RowLimit THEN TruncationNotice(Len(rows)) ELSE <<>>)

\* how a query_sql call ends: the string it returns or the exception it
\* raises, the connections it opened and closed, the statements it handed
\* to the engine and the database it leaves
SqlOutcome(returned, result, exc, opened, closed, executed, db) ==
    [returned |-> returned, result |-> result, exc |-> exc, opened |-> opened,
     closed |-> closed, executed |-> executed, db |-> db]

\* the engine's exception turned into a returned string
run_query_soft_errors(sql_stripped, db) ==
    LET r == sqlite_execute(sql_stripped, db)
    IN  IF r.exc # ""
        THEN SqlOutcome(TRUE, <<"Error: ", r.exc>>, "", 1, 1, <<sql_stripped>>, r.db)
        ELSE IF r.rows = <<>>
        THEN SqlOutcome(TRUE, SqlZeroRows, "", 1, 1, <<sql_stripped>>, r.db)
        ELSE SqlOutcome(TRUE, SqlTable(r.columns, r.rows), "", 1, 1, <<sql_stripped>>, r.db)

\* the table built whether or not there are rows
run_query_no_empty_check(sql_stripped, db) ==
    LET r == sqlite_execute(sql_stripped, db)
    IN  IF r.exc # ""
        THEN SqlOutcome(FALSE, <<>>, r.exc, 1, 0, <<sql_stripped>>, r.db)
        ELSE SqlOutcome(TRUE, SqlTable(r.columns, r.rows), "", 1, 1, <<sql_stripped>>, r.db)

\* query_sql past the prefix check: connect, execute, fetchall, format
run_query(sql_stripped, db) ==
    LET r == sqlite_execute(sql_stripped, db)
    IN  IF r.exc # ""
        THEN SqlOutcome(FALSE, <<>>, r.exc, 1, 0, <<sql_stripped>>, r.db)
        ELSE IF r.rows = <<>>
        THEN SqlOutcome(TRUE, SqlZeroRows, "", 1, 1, <<sql_stripped>>, r.db)
        ELSE SqlOutcome(TRUE, SqlTable(r.columns, r.rows), "", 1, 1, <<sql_stripped>>, r.db)

\* every statement handed to the engine
query_sql_unchecked(sql, db) == run_query(strip(sql), db)

\* query_sql on a statement, against the database db
query_sql(sql, db) ==
    LET sql_stripped == strip(sql)
    IN  IF ~StartsWith(upper(sql_stripped), <<"SELECT">>)
        THEN SqlOutcome(TRUE, SqlRejected, "", 0, 0, <<>>, db)
        ELSE run_query(sql_stripped, db)

NoContext == <<"No relevant product technical sheet context found for this question.">>

\* query_rag: docs is the number of chunks the similarity search found,
\* rag_response the RAGResponse the model returned for them
query_rag(docs, rag_response) ==
    IF docs = 0 THEN NoContext
    ELSE json_dumps(JsonObject({"answer", "used_sources"},
                               rag_response.answer, rag_response.used_sources))

\* statements the planner may hand to query_sql
SqlStatements == {<<" ", "select", " * from sales">>}

\* the database contents a call of the planner may find
SqlResults == {SalesDb(0), SalesDb(1)}

\* answers the retrieval model may give
RagResponses ==
    {[answer |-> a, used_sources |-> l] :
        a \in Answers,
        l \in {<<<<"docs", "/", "7021.pdf">>, <<"7021.pdf">>>>}}

Question == <<"which coat sells best and what is it made of?">>

ToolCall(name, args, id) == [name |-> name, args |-> args, id |-> id]

\* the outputs a tool call may produce
ToolOutputs(call) ==
    IF call.name = "query_sql"
    THEN {query_sql(call.args, db).result : db \in SqlResults}
    ELSE {query_rag(1, r) : r \in RagResponses} \cup {query_rag(0, [answer |-> <<>>, used_sources |-> <<>>])}

----------------------------------------------------------------------------
(* collect_results *)

\* f"[{msg.name}] {text}"
TaggedFragment(name, text) == <<"[", name, "] ">> \o text

UntaggedFragment(name, text) == text

\* the fragment appended when query_rag output does not parse (except branch)
FallbackFragment(name, text) == TaggedFragment(name, text)

RagSource(src) == [source |-> PathName(src), tool |-> "query_rag"]

RECURSIVE RagSourceEntries(_)
RagSourceEntries(used_sources) ==
    IF used_sources = <<>> THEN <<>>
    ELSE <<RagSource(used_sources[1])>> \o RagSourceEntries(Tail(used_sources))

CollectOutcome(exc, collected, sources) ==
    [exc |-> exc, collected_results |-> collected, rag_sources |-> sources]

\* the body of the loop for one tool-result message
collect_tool_message(msg, collected, sources) ==
    IF msg.name = "query_rag"
    THEN LET parsed == json_loads(msg.content)
         IN  IF ~parsed.ok
             THEN \* json.JSONDecodeError, caught
                  CollectOutcome("", Append(collected, FallbackFragment(msg.name, msg.content)), sources)
             ELSE IF parsed.value.kind # "object"
             THEN \* parsed['answer'] on a value that is no dict: TypeError, not caught
                  CollectOutcome("TypeError", collected, sources)
             ELSE IF "answer" \notin parsed.value.keys
             THEN \* KeyError, caught
                  CollectOutcome("", Append(collected, FallbackFragment(msg.name, msg.content)), sources)
             ELSE CollectOutcome("",
                      Append(collected, TaggedFragment(msg.name, parsed.value.answer)),
                      sources \o RagSourceEntries(
                          IF "used_sources" \in parsed.value.keys
                          THEN parsed.value.used_sources ELSE <<>>))
    ELSE CollectOutcome("", Append(collected, TaggedFragment(msg.name, msg.content)), sources)

\* for msg in reversed(messages): from index i down, stopping at the first
\* assistant message
RECURSIVE collect_walk_no_break(_, _, _, _)
collect_walk_no_break(msgs, i, collected, sources) ==
    IF i = 0 THEN CollectOutcome("", collected, sources)
    ELSE IF msgs[i].type = "tool"
    THEN LET step == collect_tool_message(msgs[i], collected, sources)
         IN  IF step.exc # "" THEN step
             ELSE collect_walk_no_break(msgs, i - 1, step.collected_results, step.rag_sources)
    ELSE collect_walk_no_break(msgs, i - 1, collected, sources)

RECURSIVE collect_walk(_, _, _, _)
collect_walk(msgs, i, collected, sources) ==
    IF i = 0 THEN CollectOutcome("", collected, sources)
    ELSE IF msgs[i].type = "tool"
    THEN LET step == collect_tool_message(msgs[i], collected, sources)
         IN  IF step.exc # "" THEN step
             ELSE collect_walk(msgs, i - 1, step.collected_results, step.rag_sources)
    ELSE IF msgs[i].type = "ai" THEN CollectOutcome("", collected, sources)
    ELSE collect_walk(msgs, i - 1, collected, sources)

collect_results_from_empty(msgs, collected, sources) ==
    collect_walk(msgs, Len(msgs), <<>>, <<>>)

collect_results_deduplicating(msgs, collected, sources) ==
    LET out == collect_walk(msgs, Len(msgs), <<>>, <<>>)
    IN  IF out.exc = "" /\ Len(collected) >= Len(out.collected_results)
           /\ SubSeq(collected, Len(collected) - Len(out.collected_results) + 1, Len(collected))
              = out.collected_results
        THEN CollectOutcome("", collected, sources)
        ELSE collect_walk(msgs, Len(msgs), collected, sources)

\* collect_results(state): the update it returns, or the exception it raises
collect_results(msgs, collected, sources) ==
    collect_walk(msgs, Len(msgs), collected, sources)

----------------------------------------------------------------------------
(* Conditional edges *)

\* state.get(key, default)
Get(opt, default) == IF opt = <<>> THEN default ELSE opt[1]

\* every intent sent to the planner
route_after_router_always_plan(refl) == "plan"

route_after_router(refl) ==
    IF refl = "direct_response" THEN "respond" ELSE "plan"

route_after_plan_always_execute(msgs) == "execute"

route_after_plan(msgs) ==
    LET last_msg == msgs[Len(msgs)]
    IN  IF last_msg.tool_calls # <<>> THEN "execute" ELSE "synthesize"

route_after_reflect_unbounded(satisfied_opt, iter, max_iter) ==
    IF Get(satisfied_opt, TRUE) THEN "synthesize" ELSE "plan"

route_after_reflect_and(satisfied_opt, iter, max_iter) ==
    IF Get(satisfied_opt, TRUE) /\ iter >= max_iter THEN "synthesize" ELSE "plan"

route_after_reflect_strict(satisfied_opt, iter, max_iter) ==
    IF Get(satisfied_opt, TRUE) \/ iter > max_iter THEN "synthesize" ELSE "plan"

route_after_reflect(satisfied_opt, iter, max_iter) ==
    LET satisfied == Get(satisfied_opt, TRUE)
    IN  IF satisfied \/ iter >= max_iter THEN "synthesize" ELSE "plan"

----------------------------------------------------------------------------
(* The session: main and chat_loop *)

\* what the user may type at the depth prompt: digits (with their value) or not
DepthChoices ==
    {[isdigit |-> FALSE, value |-> 0]} \cup {[isdigit |-> TRUE, value |-> n] : n \in 0..4}

\* the typed number taken as it is
select_depth_unclamped(choice) == IF choice.isdigit THEN choice.value ELSE 3

select_depth(choice) ==
    LET d == IF choice.isdigit THEN choice.value ELSE 3
    IN  Max(1, Min(3, d))

\* the threads of the checkpoint store the GUI may show: the thread the
\* model follows, and another one with a history of its own
MainThread == "thread-1"

OtherThread == "thread-2"

\* a thread identifier new_thread_id() gives: nothing is stored under it
NewThread == "thread-3"

\* what the checkpoint store holds for the other thread
OtherHistory ==
    <<HumanMessage(<<"earlier question">>), AIMessage(<<"earlier answer">>, <<>>)>>

\* no worker thread is streaming; of a running one, the thread it streams on
\* and the prev_count on_chat_submit handed to it
NoWorker == [streams |-> 0, thread_id |-> "", prev_count |-> 0]

\* the GUI after on_mount: input enabled, the followed thread loaded
GuiIdle ==
    /\ input_disabled = FALSE
    /\ current_thread_id = MainThread
    /\ worker = NoWorker
    /\ finishing = 0
    /\ turn_panels = <<>>

\* main: initial_state = {"depth": depth, "max_iterations": depth * 2}
InitialState(d) == [depth |-> d, max_iterations |-> d * 2]

\* The thread's checkpoint is empty, so the state channels are unset; nodes
\* read them only after the first turn's input has written them.
Init ==
    /\ \E choice \in DepthChoices : initial_state = InitialState(select_depth(choice))
    /\ messages = <<>>
    /\ depth = 0
    /\ max_iterations = 0
    /\ iteration = 0
    /\ collected_results = <<>>
    /\ todo = <<>>
    /\ reflection = ""
    /\ reflection_satisfied = <<>>
    /\ rag_sources = <<>>
    /\ active = {}
    /\ last_node = "END"
    /\ collect_runs = 0
    /\ error = ""
    /\ database = SalesDb(1)
    /\ sql_call = NoCall
    /\ plan_context = <<>>
    /\ GuiIdle

\* an input that names the settings and the question only
invoke_state_input_only(initial, user_input) ==
    [depth |-> initial.depth, max_iterations |-> initial.max_iterations,
     messages |-> <<HumanMessage(user_input)>>]

\* invoke_state = {**initial_state, "messages": [...], "iteration": 0, ...}
invoke_state(initial, user_input) ==
    [depth |-> initial.depth, max_iterations |-> initial.max_iterations,
     messages |-> <<HumanMessage(user_input)>>,
     iteration |-> 0, collected_results |-> <<>>, todo |-> <<>>,
     reflection |-> "", rag_sources |-> <<>>]

\* a channel without reducer after the input was applied: the input's value
\* if the input names the key, the checkpointed value otherwise
Written(input, key, old) == IF key \in DOMAIN input THEN input[key] ELSE old

\* chat_loop: a question is read, invoke_state is built and handed to
\* graph.stream, which applies it to the checkpointed state: messages through
\* the reducer, every other key it names overwritten, and START -> router
stream_input ==
    /\ active = {}
    /\ LET input == invoke_state(initial_state, Question)
       IN  /\ messages' = add_messages(messages, input.messages)
           /\ depth' = Written(input, "depth", depth)
           /\ max_iterations' = Written(input, "max_iterations", max_iterations)
           /\ iteration' = Written(input, "iteration", iteration)
           /\ collected_results' = Written(input, "collected_results", collected_results)
           /\ todo' = Written(input, "todo", todo)
           /\ reflection' = Written(input, "reflection", reflection)
           /\ rag_sources' = Written(input, "rag_sources", rag_sources)
           /\ reflection_satisfied' =
                  Written(input, "reflection_satisfied", reflection_satisfied)
    /\ active' = {"router"}
    /\ last_node' = "START"
    /\ collect_runs' = 0
    /\ error' = ""
    /\ plan_context' = <<>>
    /\ UNCHANGED initial_state
    /\ UNCHANGED sqlvars

\* chat_loop: one question of the command-line session
StartTurn ==
    /\ CountType(messages, "human") < MaxTurns
    /\ stream_input
    /\ UNCHANGED guivars

----------------------------------------------------------------------------
(* The graph: nodes and edges *)

Intents == {"direct_response", "needs_tools"}

\* a node has run: it leaves the schedule and its edge's target enters
Scheduled(node, target) == (active \ {node}) \cup {target}

router ==
    /\ "router" \in active
    /\ \E intent \in Intents :
        /\ reflection' = intent
        /\ active' = Scheduled("router", route_after_router(reflection'))
    /\ last_node' = "router"
    /\ UNCHANGED <<messages, depth, max_iterations, iteration, collected_results, todo,
                   reflection_satisfied, rag_sources, initial_state, collect_runs, error>>
    /\ UNCHANGED sqlvars
    /\ UNCHANGED plan_context
    /\ UNCHANGED guivars

\* tool results on the thread so far
ToolResults(msgs) == CountType(msgs, "tool")

RECURSIVE CallsIn(_)
CallsIn(msgs) ==
    IF msgs = <<>> THEN 0 ELSE Len(msgs[1].tool_calls) + CallsIn(Tail(msgs))

CallArgs(name) == IF name = "query_sql" THEN SqlStatements ELSE {Question}

\* one tool invocation the planner may request, with identifier id
CallsWithId(id) == {ToolCall(n, a, id) : n \in ToolNames, a \in SqlStatements \cup {Question}}
                   \cap {c \in [name : ToolNames, args : SqlStatements \cup {Question}, id : {id}] :
                            c.args \in CallArgs(c.name)}

\* the tool invocations the planner's message may carry
PlanToolCalls(msgs) ==
    LET id == CallsIn(msgs) + 1
        room == MaxToolMsgs - ToolResults(msgs)
    IN  IF room <= 0
        THEN {<<>>, <<ToolCall("query_sql", <<" ", "select", " * from sales">>, id)>>}
        ELSE {<<>>} \cup {<<c>> : c \in CallsWithId(id)}
             \cup (IF room >= 2 /\ MaxCalls >= 2
                   THEN {<<c1, c2>> : c1 \in CallsWithId(id), c2 \in CallsWithId(id + 1)}
                   ELSE {})
             \cup (IF room >= 3 /\ MaxCalls >= 3
                   THEN {<<c1, c2, c3>> : c1 \in CallsWithId(id), c2 \in CallsWithId(id + 1),
                                          c3 \in CallsWithId(id + 2)}
                   ELSE {})

\* the reflection part whenever the field is set
plan_reflection_unguarded(refl, iter) == IF refl # "" THEN <<refl>> ELSE <<>>

\* if reflection and iteration > 0: context_parts.append("Reflection from
\* previous iteration: ...")
plan_reflection(refl, iter) == IF refl # "" /\ iter > 0 THEN <<refl>> ELSE <<>>

\* a round that is not counted
next_iteration_uncounted(iter) == iter

\* "iteration": iteration + 1
next_iteration(iter) == iter + 1

plan ==
    /\ "plan" \in active
    /\ iteration < RoundCap
    /\ \E calls \in PlanToolCalls(messages) :
        LET response == AIMessage(IF calls = <<>> THEN <<"no more data needed">> ELSE <<>>, calls)
        IN  /\ messages' = add_messages(messages, <<response>>)
            /\ iteration' = next_iteration(iteration)
            /\ active' = Scheduled("plan", route_after_plan(messages'))
    /\ plan_context' = plan_reflection(reflection, iteration)
    /\ last_node' = "plan"
    /\ UNCHANGED <<depth, max_iterations, collected_results, todo, reflection,
                   reflection_satisfied, rag_sources, initial_state, collect_runs, error>>
    /\ UNCHANGED sqlvars
    /\ UNCHANGED guivars

\* the outputs the tools may return for a sequence of invocations
RECURSIVE ExecuteOutputs(_, _)
ExecuteOutputs(calls, varied) ==
    IF calls = <<>> THEN {<<>>}
    ELSE {<<ToolMessage(calls[1].name, out, calls[1].id)>> \o rest :
            out \in (IF varied THEN ToolOutputs(calls[1]) ELSE {query_sql(calls[1].args, SalesDb(0)).result}),
            rest \in ExecuteOutputs(Tail(calls), varied)}

\* ToolNode(TOOLS): one tool-result message per invocation of the last
\* assistant message, in invocation order
execute ==
    /\ "execute" \in active
    /\ \E results \in ExecuteOutputs(messages[Len(messages)].tool_calls,
                                     ToolResults(messages) < MaxToolMsgs) :
        messages' = add_messages(messages, results)
    /\ active' = Scheduled("execute", "collect_results")
    /\ last_node' = "execute"
    /\ collect_runs' = 0
    /\ UNCHANGED <<depth, max_iterations, iteration, collected_results, todo, reflection,
                   reflection_satisfied, rag_sources, initial_state, error>>
    /\ UNCHANGED sqlvars
    /\ UNCHANGED plan_context
    /\ UNCHANGED guivars

collect_results_node ==
    /\ "collect_results" \in active
    /\ LET out == collect_results(messages, collected_results, rag_sources)
       IN  IF out.exc # ""
           THEN /\ error' = out.exc
                /\ active' = {}
                /\ UNCHANGED <<collected_results, rag_sources>>
           ELSE /\ collected_results' = out.collected_results
                /\ rag_sources' = out.rag_sources
                /\ active' = Scheduled("collect_results", "reflect")
                /\ error' = error
    /\ last_node' = "collect_results"
    /\ collect_runs' = collect_runs + 1
    /\ UNCHANGED <<messages, depth, max_iterations, iteration, todo, reflection,
                   reflection_satisfied, initial_state>>
    /\ UNCHANGED sqlvars
    /\ UNCHANGED plan_context
    /\ UNCHANGED guivars

\* the ReflectDecision values the model may return
ReflectDecisions ==
    {[satisfied |-> TRUE, feedback |-> "data is sufficient", updated_todo |-> <<>>],
     [satisfied |-> FALSE, feedback |-> "query more data", updated_todo |-> <<"check materials">>]}

reflect ==
    /\ "reflect" \in active
    /\ \E result \in ReflectDecisions :
        /\ reflection' = result.feedback
        /\ todo' = result.updated_todo
        /\ reflection_satisfied' = <<result.satisfied>>
        /\ active' = Scheduled("reflect",
                        route_after_reflect(reflection_satisfied', iteration, max_iterations))
    /\ last_node' = "reflect"
    /\ UNCHANGED <<messages, depth, max_iterations, iteration, collected_results,
                   rag_sources, initial_state, collect_runs, error>>
    /\ UNCHANGED sqlvars
    /\ UNCHANGED plan_context
    /\ UNCHANGED guivars

\* every entry's source, repeats included
RECURSIVE unique_sources_keep_all(_, _)
unique_sources_keep_all(sources, seen) ==
    IF sources = <<>> THEN <<>>
    ELSE <<sources[1].source>> \o unique_sources_keep_all(Tail(sources), seen)

\* list(dict.fromkeys(s["source"] for s in rag_sources))
RECURSIVE unique_sources(_, _)
unique_sources(sources, seen) ==
    IF sources = <<>> THEN <<>>
    ELSE IF sources[1].source \in seen THEN unique_sources(Tail(sources), seen)
    ELSE <<sources[1].source>> \o unique_sources(Tail(sources), seen \cup {sources[1].source})

RECURSIVE SourceLines(_)
SourceLines(names) ==
    IF names = <<>> THEN <<>>
    ELSE <<"- ">> \o names[1] \o (IF Len(names) > 1 THEN <<"\n">> ELSE <<>>)
         \o SourceLines(Tail(names))

sources_section(sources) ==
    <<"\n\n---\n**Sources (Product Technical Sheets):**\n">>
    \o SourceLines(unique_sources(sources, {}))

\* the section appended whatever rag_sources holds
synthesize_content_always_section(text, sources) == text \o sources_section(sources)

synthesize_content(text, sources) ==
    IF sources # <<>> THEN text \o sources_section(sources) ELSE text

synthesize ==
    /\ "synthesize" \in active
    /\ messages' = add_messages(messages,
                      <<AIMessage(synthesize_content(<<"final answer">>, rag_sources), <<>>)>>)
    /\ active' = active \ {"synthesize"}
    /\ last_node' = "synthesize"
    /\ UNCHANGED <<depth, max_iterations, iteration, collected_results, todo, reflection,
                   reflection_satisfied, rag_sources, initial_state, collect_runs, error>>
    /\ UNCHANGED sqlvars
    /\ UNCHANGED plan_context
    /\ UNCHANGED guivars

respond ==
    /\ "respond" \in active
    /\ messages' = add_messages(messages, <<AIMessage(<<"hello">>, <<>>)>>)
    /\ active' = active \ {"respond"}
    /\ last_node' = "respond"
    /\ UNCHANGED <<depth, max_iterations, iteration, collected_results, todo, reflection,
                   reflection_satisfied, rag_sources, initial_state, collect_runs, error>>
    /\ UNCHANGED sqlvars
    /\ UNCHANGED plan_context
    /\ UNCHANGED guivars

\* one step of the running turn
NodeStep ==
    \/ router
    \/ plan
    \/ execute
    \/ collect_results_node
    \/ reflect
    \/ synthesize
    \/ respond

Next ==
    \/ StartTurn
    \/ NodeStep

Spec == Init /\ [][Next]_vars

\* chat_loop under the turn bound of the fair specification
StartTurnFair == StartTurn /\ CountType(messages, "human") < MaxFairTurns

NextFair ==
    \/ StartTurnFair
    \/ NodeStep

\* every model call and tool call returns: a scheduled node runs
FairSpec == Init /\ [][NextFair]_vars /\ WF_vars(NodeStep)

----------------------------------------------------------------------------
(* Rendering of an answer: render_ai_content and _write_assistant_box *)

OpenTag == "<tabledata>"

CloseTag == "</tabledata>"

\* index of the first token t of s at or after i, 0 if there is none
RECURSIVE IndexFrom(_, _, _)
IndexFrom(s, t, i) ==
    IF i > Len(s) THEN 0 ELSE IF s[i] = t THEN i ELSE IndexFrom(s, t, i + 1)

\* re.split(r"<tabledata>(.*?)</tabledata>", text, flags=re.DOTALL): the
\* text outside the blocks at the odd positions of the result, the block
\* bodies at the even ones
RECURSIVE split_tabledata(_)
split_tabledata(text) ==
    LET open == IndexFrom(text, OpenTag, 1)
        close == IF open = 0 THEN 0 ELSE IndexFrom(text, CloseTag, open + 1)
    IN  IF close = 0 THEN <<text>>
        ELSE <<SubSeq(text, 1, open - 1), SubSeq(text, open + 1, close - 1)>>
             \o split_tabledata(SubSeq(text, close + 1, Len(text)))

\* JSON values a block body may hold. An object is given by its keys and,
\* for each key, the text str() gives for its value.
JsonNumber == [kind |-> "number", keys |-> <<>>, strs |-> <<>>, items |-> <<>>]

JsonNull == [kind |-> "null", keys |-> <<>>, strs |-> <<>>, items |-> <<>>]

JsonRow(keys, strs) == [kind |-> "object", keys |-> keys, strs |-> strs, items |-> <<>>]

JsonArray(items) == [kind |-> "array", keys |-> <<>>, strs |-> <<>>, items |-> items]

CoatRow == JsonRow(<<"name", "revenue">>, <<"coat", "10">>)

HatRow == JsonRow(<<"name">>, <<"hat">>)

BodyValues ==
    {JsonArray(<<CoatRow, HatRow>>),
     JsonArray(<<CoatRow>>),
     JsonArray(<<>>),
     JsonArray(<<JsonNumber, CoatRow>>),
     JsonArray(<<CoatRow, JsonNumber>>),
     JsonArray(<<CoatRow, JsonNull>>),
     CoatRow,
     JsonNumber}

\* the JSON text of a value
RECURSIVE json_text(_)
RECURSIVE JoinItems(_)
JoinItems(items) ==
    IF items = <<>> THEN <<>>
    ELSE json_text(items[1]) \o (IF Len(items) > 1 THEN <<", ">> ELSE <<>>)
         \o JoinItems(Tail(items))

RECURSIVE JoinMembers(_, _)
JoinMembers(keys, strs) ==
    IF keys = <<>> THEN <<>>
    ELSE <<"\"", keys[1], "\": ", "\"", strs[1], "\"">>
         \o (IF Len(keys) > 1 THEN <<", ">> ELSE <<>>)
         \o JoinMembers(Tail(keys), Tail(strs))

json_text(v) ==
    IF v.kind = "number" THEN <<"5">>
    ELSE IF v.kind = "null" THEN <<"null">>
    ELSE IF v.kind = "object" THEN <<"{">> \o JoinMembers(v.keys, v.strs) \o <<"}">>
    ELSE <<"[">> \o JoinItems(v.items) \o <<"]">>

BodyTexts == {[text |-> json_text(v), value |-> v] : v \in BodyValues}

\* json.loads on a block body: the value whose text it is, surrounding
\* whitespace apart; a JSONDecodeError for any other text
json_loads_body(part) ==
    IF \E t \in BodyTexts : t.text = strip(part)
    THEN [ok |-> TRUE, value |-> (CHOOSE t \in BodyTexts : t.text = strip(part)).value]
    ELSE [ok |-> FALSE, value |-> JsonNull]

Markdown(text) == [kind |-> "markdown", text |-> text, columns |-> <<>>, rows |-> <<>>]

Table(columns, rows) == [kind |-> "table", text |-> <<>>, columns |-> columns, rows |-> rows]

\* row.get(col, "") turned into text
RowGet(row, col) ==
    IF \E k \in 1..Len(row.keys) : row.keys[k] = col
    THEN row.strs[CHOOSE k \in 1..Len(row.keys) : row.keys[k] = col]
    ELSE ""

RenderOutcome(exc, renderables) == [exc |-> exc, renderables |-> renderables]

\* one block body: a table if it parses to a non-empty list whose first
\* element is a dict, Markdown of the stripped body otherwise. row.get on an
\* element that is no dict raises AttributeError, which the except clause
\* (json.JSONDecodeError, IndexError, TypeError) does not name.
render_block(part) ==
    LET parsed == json_loads_body(part)
        data == parsed.value
    IN  IF ~parsed.ok THEN RenderOutcome("", <<Markdown(strip(part))>>)
        ELSE IF data.kind = "array" /\ data.items # <<>> /\ data.items[1].kind = "object"
        THEN IF \E r \in 1..Len(data.items) : data.items[r].kind # "object"
             THEN RenderOutcome("AttributeError", <<>>)
             ELSE LET columns == data.items[1].keys
                  IN  RenderOutcome("", <<Table(columns,
                          [r \in 1..Len(data.items) |->
                              [c \in 1..Len(columns) |-> RowGet(data.items[r], columns[c])]])>>)
        ELSE RenderOutcome("", <<Markdown(strip(part))>>)

\* for i, part in enumerate(parts): from part i on
RECURSIVE render_parts(_, _)
render_parts(parts, i) ==
    IF i > Len(parts) THEN RenderOutcome("", <<>>)
    ELSE LET one == IF i % 2 = 0
                    THEN render_block(parts[i])
                    ELSE RenderOutcome("", IF strip(parts[i]) # <<>>
                                           THEN <<Markdown(strip(parts[i]))>> ELSE <<>>)
         IN  IF one.exc # "" THEN one
             ELSE LET rest == render_parts(parts, i + 1)
                  IN  RenderOutcome(rest.exc, one.renderables \o rest.renderables)

\* the renderables of an answer text, or the exception raised on the way;
\* the whole text as Markdown if the parts gave nothing to render
render_ai_content(text) ==
    LET out == render_parts(split_tabledata(text), 1)
    IN  IF out.exc = "" /\ out.renderables = <<>>
        THEN RenderOutcome("", <<Markdown(text)>>)
        ELSE out

AssistantPanel(renderables) == [title |-> "Assistant", body |-> renderables]

ErrorPanel(text) == [title |-> "Error", body |-> <<Markdown(text)>>]

\* _write_assistant_box: the panel written to the chat log, none if there
\* is nothing to render
write_assistant_box(text) ==
    LET out == render_parts(split_tabledata(text), 1)
    IN  [exc |-> out.exc,
         panels |-> IF out.exc = "" /\ out.renderables # <<>>
                    THEN <<AssistantPanel(out.renderables)>> ELSE <<>>]

\* the body of a block in an answer text
BlockBodies ==
    {json_text(v) : v \in BodyValues} \cup {<<"name | revenue">>, <<" ", "[">>, <<>>}

\* the text around the blocks
ProseTexts == {<<>>, <<" ">>, <<"Top sellers:">>}

\* answer texts with up to n blocks; the last opening tag may lack its
\* closing tag
RECURSIVE AnswerTexts(_)
AnswerTexts(n) ==
    IF n = 0 THEN ProseTexts
    ELSE AnswerTexts(n - 1)
         \cup {p \o <<OpenTag>> \o b \o <<CloseTag>> \o t :
                 p \in ProseTexts, b \in BlockBodies, t \in AnswerTexts(n - 1)}
         \cup {p \o <<OpenTag>> \o b : p \in ProseTexts, b \in BlockBodies}

\* a thread whose last message is an answer about to be rendered
InitRender ==
    /\ initial_state = [depth |-> 3, max_iterations |-> 6]
    /\ depth = 3
    /\ max_iterations = 6
    /\ iteration = 1
    /\ \E text \in AnswerTexts(MaxBlocks) :
          messages = <<HumanMessage(Question), AIMessage(<<"no more data needed">>, <<>>),
                       AIMessage(text, <<>>)>>
    /\ collected_results = <<>>
    /\ todo = <<>>
    /\ reflection = "needs_tools"
    /\ reflection_satisfied = <<>>
    /\ rag_sources = <<>>
    /\ active = {}
    /\ last_node = "synthesize"
    /\ collect_runs = 0
    /\ error = ""
    /\ database = SalesDb(1)
    /\ sql_call = NoCall
    /\ plan_context = <<>>
    /\ GuiIdle

NoResponse == "The AI model did not return a response."

\* the end of a turn of chat_loop: the final answer is printed through
\* render_ai_content, an empty one as a notice; the call stands outside the
\* try block of the turn, so an exception leaves chat_loop
render_answer ==
    /\ last_node = "synthesize"
    /\ LET final_content == messages[Len(messages)].content
           out == render_ai_content(final_content)
       IN  IF final_content = <<>>
           THEN /\ error' = ""
                /\ turn_panels' = Append(turn_panels, ErrorPanel(NoResponse))
           ELSE /\ error' = out.exc
                /\ turn_panels' = turn_panels \o
                      (IF out.exc = "" THEN <<AssistantPanel(out.renderables)>> ELSE <<>>)
    /\ last_node' = "END"
    /\ UNCHANGED <<messages, depth, max_iterations, iteration, collected_results, todo,
                   reflection, reflection_satisfied, rag_sources, active,
                   initial_state, collect_runs, plan_context,
                   input_disabled, current_thread_id, worker, finishing>>
    /\ UNCHANGED sqlvars

SpecRender == InitRender /\ [][render_answer]_vars

----------------------------------------------------------------------------
(* The GUI: RetailAgentGui drives the same graph from a worker thread while
   the main thread keeps handling the depth selector *)

\* RetailAgentGui.__init__: depth 3 is preselected; the thread is new
InitGui ==
    /\ initial_state = [depth |-> 3, max_iterations |-> 6]
    /\ messages = <<>>
    /\ depth = 0
    /\ max_iterations = 0
    /\ iteration = 0
    /\ collected_results = <<>>
    /\ todo = <<>>
    /\ reflection = ""
    /\ reflection_satisfied = <<>>
    /\ rag_sources = <<>>
    /\ active = {}
    /\ last_node = "END"
    /\ collect_runs = 0
    /\ error = ""
    /\ database = SalesDb(1)
    /\ sql_call = NoCall
    /\ plan_context = <<>>
    /\ GuiIdle

\* the settings of the running turn, were its input the GUI's own dict
settings_shared(turn, gui) == gui

\* the settings of the turn against the GUI's initial_state: invoke_state
\* was built as {**self.initial_state, ...} when the worker started, a dict
\* of its own, so later writes to self.initial_state do not reach it
settings_copied(turn, gui) == turn

\* on_depth_changed, first write: self.initial_state["depth"] = self.depth.
\* The worker thread may run between this write and the next one.
on_depth_changed_depth ==
    /\ \E pressed_index \in 0..2 :
          initial_state' = [initial_state EXCEPT !.depth = pressed_index + 1]
    /\ LET s == settings_copied([depth |-> depth, max_iterations |-> max_iterations],
                                initial_state')
       IN  depth' = s.depth /\ max_iterations' = s.max_iterations
    /\ UNCHANGED <<messages, iteration, collected_results, todo, reflection,
                   reflection_satisfied, rag_sources, active, last_node,
                   collect_runs, error>>
    /\ UNCHANGED sqlvars
    /\ UNCHANGED plan_context
    /\ UNCHANGED guivars

\* on_depth_changed, second write:
\* self.initial_state["max_iterations"] = self.depth * 2
on_depth_changed_max_iterations ==
    /\ initial_state.max_iterations # initial_state.depth * 2
    /\ initial_state' = [initial_state EXCEPT !.max_iterations = initial_state.depth * 2]
    /\ LET s == settings_copied([depth |-> depth, max_iterations |-> max_iterations],
                                initial_state')
       IN  depth' = s.depth /\ max_iterations' = s.max_iterations
    /\ UNCHANGED <<messages, iteration, collected_results, todo, reflection,
                   reflection_satisfied, rag_sources, active, last_node,
                   collect_runs, error>>
    /\ UNCHANGED sqlvars
    /\ UNCHANGED plan_context
    /\ UNCHANGED guivars

\* on_chat_submit and the start of run_agent_turn: the worker builds
\* invoke_state from self.initial_state as it is at that moment
StartTurnGui == StartTurn /\ CountType(messages, "human") < MaxGuiTurns

NextGui ==
    \/ StartTurnGui
    \/ on_depth_changed_depth
    \/ on_depth_changed_max_iterations
    \/ NodeStep /\ CallsIn(messages') <= MaxGuiCalls

SpecGui == InitGui /\ [][NextGui]_vars

----------------------------------------------------------------------------
(* The GUI: a turn from on_chat_submit through the worker thread to the
   callbacks it posts, while the main thread keeps handling the session list *)

\* self.agent.get_state(config).values.get("messages", []) for a thread
ThreadMessages(thread_id) ==
    IF thread_id = MainThread THEN messages
    ELSE IF thread_id = OtherThread THEN OtherHistory
    ELSE <<>>

\* the history after a failed turn, were the turn's writes taken back
history_rolled_back(msgs) == SubSeq(msgs, 1, LastHumanIndex(msgs) - 1)

\* the history after a failed turn: the except clauses of run_agent_turn and
\* chat_loop only report, the checkpoints written so far stay
history_after_failure(msgs) == msgs

\* on_chat_submit with run_agent_turn's start: the input is disabled, the
\* user box written, prev_count read and the worker started. A question
\* submitted while a worker is still streaming starts a second stream, which
\* the model records and follows no further.
on_chat_submit ==
    /\ ~input_disabled
    /\ worker.streams < 2
    /\ current_thread_id = MainThread
    /\ input_disabled' = TRUE
    /\ IF worker.streams = 0
       THEN /\ CountType(messages, "human") < MaxWorkerTurns
            /\ stream_input
            /\ worker' = [streams |-> 1, thread_id |-> current_thread_id,
                          prev_count |-> Len(ThreadMessages(current_thread_id))]
            /\ turn_panels' = <<>>
       ELSE /\ worker' = [worker EXCEPT !.streams = 2]
            /\ UNCHANGED <<messages, depth, max_iterations, iteration, collected_results,
                           todo, reflection, reflection_satisfied, rag_sources, active,
                           last_node, initial_state, collect_runs, error, plan_context,
                           turn_panels>>
            /\ UNCHANGED sqlvars
    /\ UNCHANGED <<current_thread_id, finishing>>

\* a node of the running turn raises (a model call or a tool fails): the
\* stream ends with the exception, nothing is written for the failed node
node_raises ==
    /\ worker.streams = 1
    /\ active # {}
    /\ error' = "APIError"
    /\ active' = {}
    /\ messages' = history_after_failure(messages)
    /\ UNCHANGED <<depth, max_iterations, iteration, collected_results, todo, reflection,
                   reflection_satisfied, rag_sources, last_node, initial_state,
                   collect_runs, plan_context>>
    /\ UNCHANGED sqlvars
    /\ UNCHANGED guivars

\* the loop of _write_final_ai_messages over all_messages[prev_count:], from
\* message i on: an assistant box for every ai message without tool calls
\* whose text is not blank
RECURSIVE write_new_messages(_, _)
write_new_messages(new, i) ==
    IF i > Len(new) THEN [exc |-> "", panels |-> <<>>]
    ELSE LET msg == new[i]
             content == strip(msg.content)
             one == IF msg.type = "ai" /\ msg.tool_calls = <<>> /\ content # <<>>
                    THEN write_assistant_box(content)
                    ELSE [exc |-> "", panels |-> <<>>]
         IN  IF one.exc # "" THEN one
             ELSE LET rest == write_new_messages(new, i + 1)
                  IN  [exc |-> rest.exc, panels |-> one.panels \o rest.panels]

\* the callback _write_final_ai_messages(prev_count) the worker posts after
\* the stream, with the worker's end: the messages are those stored under
\* self.current_thread_id as it is when the callback runs. With nothing to
\* show _render_error is called. The worker then posts _finish_turn.
write_final_ai_messages ==
    /\ worker.streams = 1
    /\ active = {}
    /\ error = ""
    /\ LET all_messages == ThreadMessages(current_thread_id)
           new == SubSeq(all_messages, worker.prev_count + 1, Len(all_messages))
           out == write_new_messages(new, 1)
       IN  IF out.exc # ""
           THEN /\ error' = out.exc
                /\ turn_panels' = turn_panels \o out.panels
                /\ UNCHANGED <<input_disabled, worker, finishing>>
           ELSE /\ error' = error
                /\ worker' = NoWorker
                /\ finishing' = finishing + 1
                /\ IF out.panels = <<>>
                   THEN /\ turn_panels' = Append(turn_panels, ErrorPanel(NoResponse))
                        /\ input_disabled' = FALSE
                   ELSE /\ turn_panels' = turn_panels \o out.panels
                        /\ UNCHANGED input_disabled
    /\ UNCHANGED <<messages, depth, max_iterations, iteration, collected_results, todo,
                   reflection, reflection_satisfied, rag_sources, active, last_node,
                   initial_state, collect_runs, plan_context, current_thread_id>>
    /\ UNCHANGED sqlvars

\* the except clause of run_agent_turn: the callback _render_error(str(error))
\* writes the notice and enables the input; the worker then posts
\* _finish_turn
render_error ==
    /\ worker.streams = 1
    /\ active = {}
    /\ error # ""
    /\ turn_panels' = Append(turn_panels, ErrorPanel(error))
    /\ input_disabled' = FALSE
    /\ worker' = NoWorker
    /\ finishing' = finishing + 1
    /\ UNCHANGED <<messages, depth, max_iterations, iteration, collected_results, todo,
                   reflection, reflection_satisfied, rag_sources, active, last_node,
                   initial_state, collect_runs, error, plan_context, current_thread_id>>
    /\ UNCHANGED sqlvars

\* the callback _finish_turn a worker posted runs on the main thread
finish_turn ==
    /\ finishing > 0
    /\ input_disabled' = FALSE
    /\ finishing' = finishing - 1
    /\ UNCHANGED <<messages, depth, max_iterations, iteration, collected_results, todo,
                   reflection, reflection_satisfied, rag_sources, active, last_node,
                   initial_state, collect_runs, error, plan_context,
                   current_thread_id, worker, turn_panels>>
    /\ UNCHANGED sqlvars

\* _load_thread: the thread becomes the current one and the chat log is
\* cleared and written anew from the thread's messages
load_thread(thread_id) ==
    /\ current_thread_id' = thread_id
    /\ turn_panels' = <<>>
    /\ UNCHANGED <<messages, depth, max_iterations, iteration, collected_results, todo,
                   reflection, reflection_satisfied, rag_sources, active, last_node,
                   initial_state, collect_runs, error, plan_context,
                   input_disabled, worker, finishing>>
    /\ UNCHANGED sqlvars

\* the threads with a button in the session list
ExistingThreads == {OtherThread} \cup (IF messages # <<>> THEN {MainThread} ELSE {})

\* on_thread_selected: a button of the session list is pressed
on_thread_selected ==
    \E thread_id \in ExistingThreads \ {current_thread_id} : load_thread(thread_id)

\* on_new_session: _load_thread(new_thread_id())
on_new_session ==
    /\ current_thread_id # NewThread
    /\ load_thread(NewThread)

NextWorker ==
    \/ on_chat_submit
    \/ NodeStep /\ worker.streams = 1 /\ CallsIn(messages') <= MaxWorkerCalls
    \/ node_raises
    \/ write_final_ai_messages
    \/ render_error
    \/ finish_turn
    \/ on_thread_selected
    \/ on_new_session

SpecWorker == InitGui /\ [][NextWorker]_vars

----------------------------------------------------------------------------
(* collect_results applied repeatedly to a frozen message history *)

\* contents a query_rag tool-result message may carry: every JSON text of the
\* bounded universe, the no-context sentinel and a truncated JSON text
RagContents ==
    {json_dumps(v) : v \in JsonValues} \cup {NoContext, <<"{", "\"answer\": ">>}

SqlContents == {SqlRejected, SqlZeroRows, SqlTable(SalesDb(1).columns, SalesDb(1).rows)}

\* a tool invocation with identifier id and the result message answering it
CallResults(id) ==
    {[call |-> ToolCall("query_rag", Question, id), result |-> ToolMessage("query_rag", c, id)] :
        c \in RagContents}
    \cup {[call |-> ToolCall("query_sql", s, id), result |-> ToolMessage("query_sql", c, id)] :
        s \in SqlStatements, c \in SqlContents}

\* the last planning round of a frozen history: the plan message and the
\* tool results that answer it
FrozenRounds(id) ==
    {<<AIMessage(<<>>, <<a.call>>), a.result>> : a \in CallResults(id)}
    \cup {<<AIMessage(<<>>, <<a.call, b.call>>), a.result, b.result>> :
            a \in CallResults(id), b \in CallResults(id + 1)}

EarlierRound ==
    <<AIMessage(<<>>, <<ToolCall("query_sql", <<" ", "select", " * from sales">>, 1)>>),
      ToolMessage("query_sql", SqlZeroRows, 1)>>

InitCollect ==
    /\ initial_state = InitialState(1)
    /\ depth = 1
    /\ max_iterations = 2
    /\ todo = <<>>
    /\ reflection_satisfied = <<>>
    /\ rag_sources = <<>>
    /\ active = {"collect_results"}
    /\ last_node = "execute"
    /\ collect_runs = 0
    /\ error = ""
    /\ \/ /\ \E r \in FrozenRounds(1) : messages = <<HumanMessage(Question)>> \o r
          /\ iteration = 1
          /\ reflection = "needs_tools"
          /\ collected_results = <<>>
       \/ /\ \E r \in FrozenRounds(2) : messages = <<HumanMessage(Question)>> \o EarlierRound \o r
          /\ iteration = 2
          /\ reflection = "query more data"
          /\ collected_results = <<TaggedFragment("query_sql", SqlZeroRows)>>
    /\ database = SalesDb(1)
    /\ sql_call = NoCall
    /\ plan_context = <<>>
    /\ GuiIdle

\* collect_results run once more over the same history, its update applied
\* to the state; a run that raises leaves the state as it was
collect_results_again ==
    /\ "collect_results" \in active
    /\ error = ""
    /\ collect_runs < MaxCollectRuns
    /\ LET out == collect_results(messages, collected_results, rag_sources)
       IN  IF out.exc # ""
           THEN /\ error' = out.exc
                /\ UNCHANGED <<collected_results, rag_sources>>
           ELSE /\ collected_results' = out.collected_results
                /\ rag_sources' = out.rag_sources
                /\ error' = error
    /\ collect_runs' = collect_runs + 1
    /\ last_node' = "collect_results"
    /\ UNCHANGED <<messages, depth, max_iterations, iteration, todo, reflection,
                   reflection_satisfied, initial_state, active>>
    /\ UNCHANGED sqlvars
    /\ UNCHANGED plan_context
    /\ UNCHANGED guivars

SpecCollect == InitCollect /\ [][collect_results_again]_vars

----------------------------------------------------------------------------
(* synthesize applied to every rag_sources sequence of a bounded universe *)

\* used_sources values behind the entries of rag_sources
SynthPaths == {<<"docs", "/", "7021.pdf">>, <<"7034.pdf">>, <<"9100.pdf">>}

\* the rag_sources sequences of length n
RECURSIVE SourceSeqs(_)
SourceSeqs(n) ==
    IF n = 0 THEN {<<>>}
    ELSE {<<RagSource(p)>> \o s : p \in SynthPaths, s \in SourceSeqs(n - 1)}

\* a turn about to run synthesize: its rounds have collected rag_sources
InitSynth ==
    /\ initial_state = InitialState(1)
    /\ depth = 1
    /\ max_iterations = 2
    /\ iteration = 1
    /\ messages = <<HumanMessage(Question), AIMessage(<<"no more data needed">>, <<>>)>>
    /\ \E n \in 0..MaxSources : rag_sources \in SourceSeqs(n)
    /\ collected_results = [i \in 1..Len(rag_sources) |-> TaggedFragment("query_rag", <<"silk">>)]
    /\ todo = <<>>
    /\ reflection = "data is sufficient"
    /\ reflection_satisfied = <<TRUE>>
    /\ active = {"synthesize"}
    /\ last_node = "reflect"
    /\ collect_runs = 1
    /\ error = ""
    /\ database = SalesDb(1)
    /\ sql_call = NoCall
    /\ plan_context = <<>>
    /\ GuiIdle

SpecSynth == InitSynth /\ [][synthesize]_vars

----------------------------------------------------------------------------
(* query_sql called on its own, as the tests of the tool call it *)

\* row counts of the table: none, one, and around the row limit
RowCounts == {0, 1, RowLimit - 1, RowLimit} \cup {RowLimit + k : k \in 1..MaxExtraRows}

\* the sql argument: SELECTs in several spellings, with and without
\* surrounding whitespace, that the engine accepts or rejects, other
\* statements, and blank input
SqlInputs ==
    {<<" ", "select", " * from sales", " ">>,
     <<"SELECT", " * from sales">>,
     <<"Select", " * from sales", " where 1 = 0">>,
     <<"select", " * from nowhere">>,
     <<" ", "SELECT", " * frm sales">>,
     <<"insert", " into sales values ('hat', 1)">>,
     <<"UPDATE", " sales set revenue = 0">>,
     <<" ", "delete", " from sales">>,
     <<"drop", " table sales">>,
     <<"with", " t as (select 1) select * from t">>,
     <<" ">>,
     <<>>}

InitSql ==
    /\ initial_state = InitialState(3)
    /\ messages = <<>>
    /\ depth = 0
    /\ max_iterations = 0
    /\ iteration = 0
    /\ collected_results = <<>>
    /\ todo = <<>>
    /\ reflection = ""
    /\ reflection_satisfied = <<>>
    /\ rag_sources = <<>>
    /\ active = {}
    /\ last_node = "END"
    /\ collect_runs = 0
    /\ error = ""
    /\ \E n \in RowCounts : database = SalesDb(n)
    /\ sql_call = NoCall
    /\ plan_context = <<>>
    /\ GuiIdle

\* query_sql.invoke({"sql": sql}): the call runs to its return or to the
\* exception it raises
call_query_sql ==
    /\ sql_call.n < MaxSqlCalls
    /\ \E sql \in SqlInputs :
        LET out == query_sql(sql, database)
        IN  /\ database' = out.db
            /\ sql_call' = [n |-> sql_call.n + 1, sql |-> sql, returned |-> out.returned,
                            result |-> out.result, exc |-> out.exc, opened |-> out.opened,
                            closed |-> out.closed, executed |-> out.executed]
    /\ UNCHANGED <<messages, depth, max_iterations, iteration, collected_results, todo,
                   reflection, reflection_satisfied, rag_sources, active, last_node,
                   initial_state, collect_runs, error>>
    /\ UNCHANGED plan_context
    /\ UNCHANGED guivars

SpecSql == InitSql /\ [][call_query_sql]_vars

----------------------------------------------------------------------------
(* Helpers of the properties *)

\* tokens lo..hi of a text cut into lines at the newline tokens
RECURSIVE SplitRange(_, _, _)
SplitRange(s, lo, hi) ==
    IF lo > hi THEN <<<<>>>>
    ELSE IF lo = hi THEN (IF s[lo] = "\n" THEN <<<<>>, <<>>>> ELSE <<<<s[lo]>>>>)
    ELSE LET mid == (lo + hi) \div 2
             l == SplitRange(s, lo, mid)
             r == SplitRange(s, mid + 1, hi)
         IN  SubSeq(l, 1, Len(l) - 1) \o <<l[Len(l)] \o r[1]>> \o Tail(r)

\* a text cut into lines at the newline tokens
SplitLines(s) == SplitRange(s, 1, Len(s))

Range(s) == {s[i] : i \in 1..Len(s)}

Occurrences(s, x) == Cardinality({i \in 1..Len(s) : s[i] = x})

SameEntries(a, b) ==
    /\ Len(a) = Len(b)
    /\ \A x \in Range(a) \cup Range(b) : Occurrences(a, x) = Occurrences(b, x)

LastAIIndex(msgs) == LastIndexOfType(msgs, "ai", Len(msgs))

\* indices of the tool results that follow the most recent assistant message
WindowTools(msgs) ==
    LET last_ai == LastAIIndex(msgs)
    IN  {i \in (last_ai + 1)..Len(msgs) : msgs[i].type = "tool"}

\* indices of the tool results of the current turn
TurnTools(msgs) ==
    LET last_human == LastHumanIndex(msgs)
    IN  {i \in (last_human + 1)..Len(msgs) : msgs[i].type = "tool"}

\* the tool results of the current turn that a collect_results run has seen
CollectedTools(msgs) ==
    IF "collect_results" \in active THEN TurnTools(msgs) \ WindowTools(msgs) ELSE TurnTools(msgs)

\* a query_rag result with the answer / used_sources structure
WellFormedRag(m) ==
    /\ m.name = "query_rag"
    /\ \E t \in JsonTexts :
        /\ t.text = m.content
        /\ t.value.kind = "object"
        /\ t.value.keys = {"answer", "used_sources"}

RagValue(m) == (CHOOSE t \in JsonTexts : t.text = m.content).value

\* the fragment a tool result is to contribute
ExpectedFragment(m) ==
    <<"[", m.name, "] ">> \o (IF WellFormedRag(m) THEN RagValue(m).answer ELSE m.content)

\* the sequence s restricted to the indices in S, in order
RECURSIVE Pick(_, _)
Pick(s, S) ==
    IF S = {} THEN <<>>
    ELSE LET i == CHOOSE x \in S : \A y \in S : x <= y
         IN  <<s[i]>> \o Pick(s, S \ {i})

RECURSIVE SumSources(_)
SumSources(ms) ==
    IF ms = <<>> THEN 0
    ELSE (IF WellFormedRag(ms[1]) THEN Len(RagValue(ms[1]).used_sources) ELSE 0)
         + SumSources(Tail(ms))

----------------------------------------------------------------------------
(* Properties *)

\* C1: when route_after_reflect runs with iteration >= max_iterations it
\* returns synthesize whatever reflection_satisfied is, and plan is never
\* scheduled once the iteration bound is reached.
C1_ForcedTermination ==
    [][(last_node' = "reflect" /\ iteration' >= max_iterations' => active' = {"synthesize"})
       /\ ("plan" \in active' => iteration' < max_iterations')]_vars

C1_Witness ==
    /\ last_node = "reflect"
    /\ reflection_satisfied = <<FALSE>>
    /\ iteration = max_iterations
    /\ active = {"synthesize"}

\* C2: in every state of a turn iteration <= max_iterations, in particular
\* when the loop leaves reflect for synthesize.
C2_IterationBounded ==
    CountType(messages, "human") > 0 => iteration <= max_iterations

C2_Witness ==
    /\ last_node = "reflect"
    /\ active = {"synthesize"}
    /\ max_iterations = 6
    /\ iteration = max_iterations

\* C3: when every scheduled node runs, every turn reaches respond or
\* synthesize and then ends.
C3_TurnTerminates ==
    (active # {}) ~> (active = {} /\ last_node \in {"respond", "synthesize"})

C3_Witness ==
    /\ active = {}
    /\ last_node = "synthesize"
    /\ reflection_satisfied = <<FALSE>>
    /\ iteration = max_iterations
    /\ max_iterations = 6
    /\ ToolResults(messages) >= 6

\* C4: the only transitions are START->router, router->respond exactly on
\* direct_response else router->plan, plan->execute exactly when the message
\* plan appended carries tool calls else plan->synthesize, execute->
\* collect_results, collect_results->reflect, reflect->synthesize or plan,
\* respond->END, synthesize->END; at most one node is scheduled at a time.
C4_Transitions ==
    [][/\ Cardinality(active') <= 1
       /\ last_node' = "START" => active = {} /\ active' = {"router"}
       /\ last_node' = "router" =>
            /\ active = {"router"}
            /\ active' = (IF reflection' = "direct_response" THEN {"respond"} ELSE {"plan"})
       /\ last_node' = "plan" =>
            /\ active = {"plan"}
            /\ Len(messages') = Len(messages) + 1
            /\ active' = (IF messages'[Len(messages')].tool_calls # <<>>
                          THEN {"execute"} ELSE {"synthesize"})
       /\ last_node' = "execute" => active = {"execute"} /\ active' = {"collect_results"}
       /\ last_node' = "collect_results" => active = {"collect_results"} /\ active' = {"reflect"}
       /\ last_node' = "reflect" =>
            active = {"reflect"} /\ active' \in {{"synthesize"}, {"plan"}}
       /\ last_node' = "respond" => active = {"respond"} /\ active' = {}
       /\ last_node' = "synthesize" => active = {"synthesize"} /\ active' = {}
       /\ last_node' \in {"START", "router", "plan", "execute", "collect_results",
                          "reflect", "respond", "synthesize"}]_vars

C4_Witness ==
    /\ last_node = "reflect"
    /\ active = {"plan"}
    /\ iteration >= 2
    /\ CountType(messages, "human") = 2

\* C5 as stated: a second or later run of collect_results over the same
\* history leaves collected_results and rag_sources as the first run left them.
C5_Idempotent ==
    [][collect_runs >= 1 =>
          collected_results' = collected_results /\ rag_sources' = rag_sources]_vars

\* C5 amended: every run of collect_results that returns, a repeated one
\* included, appends the fragments and sources of the tool results that
\* follow the last assistant message once more.
C5_AppendsEachRun ==
    [][collect_runs' = collect_runs + 1 /\ error' = "" =>
          LET once == collect_walk(messages, Len(messages), <<>>, <<>>)
          IN  /\ collected_results' = collected_results \o once.collected_results
              /\ rag_sources' = rag_sources \o once.rag_sources
              /\ Len(once.collected_results) = Cardinality(WindowTools(messages))]_vars

C5_Witness ==
    /\ collect_runs >= 2
    /\ error = ""
    /\ WindowTools(messages) # {}
    /\ Len(collected_results) >= 2 * Cardinality(WindowTools(messages))
    /\ rag_sources # <<>>

\* C6: collected_results holds exactly one fragment for every tool result of
\* the current turn that a collect_results run has seen, and none for a tool
\* result of an earlier turn; a run adds those of the last planning round only.
C6_CollectedOncePerToolResult ==
    LET seen == Pick(messages, CollectedTools(messages))
    IN  SameEntries(collected_results, [i \in 1..Len(seen) |-> ExpectedFragment(seen[i])])

C6_Witness ==
    /\ last_node = "collect_results"
    /\ CountType(messages, "human") = 2
    /\ ToolResults(messages) > Cardinality(TurnTools(messages))
    /\ iteration >= 2
    /\ Len(collected_results) >= 2

\* C7 as stated: a run of collect_results over malformed query_rag results
\* does not raise, appends one fragment carrying the raw content for each and
\* adds no entry to rag_sources.
C7_MalformedRecovered ==
    [][(/\ collect_runs' = collect_runs + 1
        /\ \A i \in WindowTools(messages) :
              messages[i].name = "query_rag" /\ ~WellFormedRag(messages[i]))
       => /\ error' = ""
          /\ rag_sources' = rag_sources
          /\ LET window == Pick(messages, WindowTools(messages))
             IN  SameEntries(collected_results',
                     collected_results \o
                     [i \in 1..Len(window) |-> <<"[", "query_rag", "] ">> \o window[i].content])]_vars

\* C8: every entry of collected_results starts with the bracketed name of
\* the tool that produced it.
C8_FragmentsTagged ==
    \A i \in 1..Len(collected_results) :
        \/ StartsWith(collected_results[i], <<"[", "query_sql", "] ">>)
        \/ StartsWith(collected_results[i], <<"[", "query_rag", "] ">>)

C8_Witness ==
    /\ <<"[", "query_rag", "] ">> \o NoContext \in Range(collected_results)
    /\ <<"[", "query_sql", "] ">> \o SqlZeroRows \in Range(collected_results)
    /\ \E a \in Answers : <<"[", "query_rag", "] ">> \o a \in Range(collected_results)

\* C9: rag_sources holds one entry per source listed by the query_rag
\* results that parsed (duplicates kept), each with tool query_rag and a bare
\* filename as source; no other tool result adds an entry.
C9_RagSources ==
    LET seen == Pick(messages, CollectedTools(messages))
    IN  /\ Len(rag_sources) = SumSources(seen)
        /\ \A i \in 1..Len(rag_sources) :
              /\ rag_sources[i].tool = "query_rag"
              /\ \A j \in 1..Len(rag_sources[i].source) : rag_sources[i].source[j] # "/"
              /\ \E m \in Range(seen) :
                    /\ WellFormedRag(m)
                    /\ \E p \in Range(RagValue(m).used_sources) :
                          rag_sources[i].source = <<p[Len(p)]>>

C9_Witness ==
    /\ Len(rag_sources) >= 2
    /\ rag_sources[1] = rag_sources[2]
    /\ \E i \in CollectedTools(messages) : messages[i].name = "query_sql"

\* C10: within a turn collected_results and rag_sources only grow: their
\* value before a node runs is a prefix of their value after it.
C10_OnlyGrow ==
    [][last_node' # "START" =>
          /\ IsPrefix(collected_results, collected_results')
          /\ IsPrefix(rag_sources, rag_sources')]_vars

C10_Witness ==
    /\ iteration >= 2
    /\ last_node = "collect_results"
    /\ Len(collected_results) >= 3
    /\ rag_sources # <<>>

----------------------------------------------------------------------------
(* C11: source deduplication in synthesize *)

SourcesHeading == "\n\n---\n**Sources (Product Technical Sheets):**\n"

\* the tokens that follow the sources heading in a message text
RECURSIVE AfterHeading(_)
AfterHeading(content) ==
    IF content = <<>> THEN <<>>
    ELSE IF content[1] = SourcesHeading THEN Tail(content)
    ELSE AfterHeading(Tail(content))


\* the identifiers the source section lists, line by line
ListedSources(content) ==
    LET lines == SplitLines(AfterHeading(content))
    IN  [i \in 1..Len(lines) |-> Tail(lines[i])]

FirstIndex(s, x) == CHOOSE i \in 1..Len(s) : s[i] = x /\ \A j \in 1..(i - 1) : s[j] # x

\* C11: whatever rag_sources holds, repeats included, the source section of
\* the final answer has one "- <identifier>" line per distinct identifier,
\* and the lines follow the order in which the identifiers first occur in
\* rag_sources.
C11_SourcesListedOnce ==
    (last_node = "synthesize" /\ rag_sources # <<>>) =>
        LET content == messages[Len(messages)].content
            listed == ListedSources(content)
            names == [i \in 1..Len(rag_sources) |-> rag_sources[i].source]
        IN  /\ \A i \in 1..Len(SplitLines(AfterHeading(content))) :
                   Head(SplitLines(AfterHeading(content))[i]) = "- "
            /\ Range(listed) = Range(names)
            /\ \A i, j \in 1..Len(listed) :
                   i < j => FirstIndex(names, listed[i]) < FirstIndex(names, listed[j])

\* a repeated identifier with another one between its occurrences, and a
\* third identifier first seen last
C11_Witness ==
    /\ last_node = "synthesize"
    /\ Len(rag_sources) = 4
    /\ rag_sources[1].source = <<"7034.pdf">>
    /\ rag_sources[2].source = <<"7021.pdf">>
    /\ rag_sources[3].source = <<"7034.pdf">>
    /\ rag_sources[4].source = <<"9100.pdf">>
    /\ ListedSources(messages[Len(messages)].content)
         = <<<<"7034.pdf">>, <<"7021.pdf">>, <<"9100.pdf">>>>

----------------------------------------------------------------------------
(* C12: the direct-response path *)

\* C12: when the router's intent is direct_response the next node of the
\* turn is respond and the turn ends there; respond runs only straight
\* after such a router step, which itself runs straight after the turn's
\* input, so no other node runs in the turn; iteration is 0 and
\* collected_results and rag_sources are empty when the turn ends, the
\* turn's part of the history holds no tool invocation and no tool result,
\* only the one assistant message without tool calls that respond appended.
C12_DirectResponse ==
    [][ /\ (last_node = "router" /\ reflection = "direct_response")
            => last_node' = "respond"
        /\ last_node' = "router" => last_node = "START"
        /\ last_node' = "respond" =>
            /\ last_node = "router"
            /\ reflection = "direct_response"
            /\ active' = {}
            /\ iteration' = 0
            /\ collected_results' = <<>>
            /\ rag_sources' = <<>>
            /\ Len(messages) = LastHumanIndex(messages)
            /\ Len(messages') = Len(messages) + 1
            /\ SubSeq(messages', 1, Len(messages)) = messages
            /\ messages'[Len(messages')].type = "ai"
            /\ messages'[Len(messages')].tool_calls = <<>> ]_vars

\* a direct response in the second turn of a thread whose first turn ran
\* tools and left collected state in the checkpoint
C12_Witness ==
    /\ last_node = "respond"
    /\ active = {}
    /\ CountType(messages, "human") = 2
    /\ ToolResults(messages) > 0
    /\ reflection_satisfied # <<>>
    /\ messages[Len(messages) - 1].type = "human"

----------------------------------------------------------------------------
(* C13 - C16: query_sql *)

\* the first token of a text that is not blank
RECURSIVE FirstWord(_)
FirstWord(s) ==
    IF s = <<>> THEN "" ELSE IF s[1] = " " THEN FirstWord(Tail(s)) ELSE s[1]

\* the text begins with SELECT once trimmed, in any letter case
BeginsWithSelect(sql) == FirstWord(sql) \in {"select", "Select", "SELECT"}

\* what the engine does with the statement of the call examined last
EngineOnCall == sqlite_execute(strip(sql_call.sql), database)

\* C13: a call whose input does not begin with SELECT (trimmed, any case)
\* returns the rejection string as a normal result, raises nothing, opens
\* no connection, hands no statement to the engine and leaves the database
\* as it was.
C13_NonSelectRejected ==
    [][ (sql_call'.n > sql_call.n /\ ~BeginsWithSelect(sql_call'.sql)) =>
            /\ sql_call'.returned
            /\ sql_call'.result = <<"Error: only SELECT queries are allowed.">>
            /\ sql_call'.exc = ""
            /\ sql_call'.opened = 0
            /\ sql_call'.executed = <<>>
            /\ database' = database ]_vars

\* a DROP TABLE handed to the tool after an earlier call, the table intact
C13_Witness ==
    /\ sql_call.n = 2
    /\ sql_call.sql = <<"drop", " table sales">>
    /\ sql_call.returned
    /\ sql_call.result = SqlRejected
    /\ database = SalesDb(200)

ExpectedRow(i) == <<"coat", " | ", ToString(i)>>

\* C14: a SELECT whose result has n >= 1 rows returns the header line, the
\* separator line and the data rows in order: all n of them and nothing
\* else if n <= 200; the first 200 of them and then one notice line that
\* states n if n > 200.
C14_RowLimit ==
    (sql_call.n > 0 /\ BeginsWithSelect(sql_call.sql)
        /\ EngineOnCall.exc = "" /\ EngineOnCall.rows # <<>>) =>
        LET n == Len(EngineOnCall.rows)
            lines == SplitLines(sql_call.result)
            shown == IF n > 200 THEN 200 ELSE n
        IN  /\ sql_call.returned
            /\ Len(lines) = 2 + shown + (IF n > 200 THEN 1 ELSE 0)
            /\ lines[1] = <<"name", " | ", "revenue">>
            /\ lines[2] # <<>> /\ Range(lines[2]) = {"-"}
            /\ \A i \in 1..shown : lines[2 + i] = ExpectedRow(i)
            /\ n > 200 => lines[203] = <<"... (", ToString(n), " total rows, showing first ",
                                         "200", ")">>

\* a result of 201 rows: 200 shown and the notice
C14_Witness ==
    /\ sql_call.n > 0
    /\ BeginsWithSelect(sql_call.sql)
    /\ sql_call.returned
    /\ Len(EngineOnCall.rows) = 201
    /\ Len(SplitLines(sql_call.result)) = 203

\* C15: a SELECT that the engine answers with no rows returns exactly the
\* text "Query returned 0 rows.", no header, separator or data line.
C15_ZeroRows ==
    (sql_call.n > 0 /\ BeginsWithSelect(sql_call.sql)
        /\ EngineOnCall.exc = "" /\ EngineOnCall.rows = <<>>) =>
        /\ sql_call.returned
        /\ sql_call.result = <<"Query returned 0 rows.">>

\* a SELECT whose condition no row of a full table meets
C15_Witness ==
    /\ sql_call.n > 0
    /\ sql_call.sql = <<"Select", " * from sales", " where 1 = 0">>
    /\ Len(database.rows) = 200
    /\ sql_call.result = SqlZeroRows

\* C16: a call whose input begins with SELECT and whose statement the
\* engine rejects ends with the engine's exception and returns nothing; a
\* call whose input does not begin with SELECT returns a string and raises
\* nothing.
C16_ErrorAsymmetry ==
    sql_call.n > 0 =>
        /\ (BeginsWithSelect(sql_call.sql) /\ EngineOnCall.exc # "") =>
              /\ ~sql_call.returned
              /\ sql_call.exc = EngineOnCall.exc
              /\ sql_call.result = <<>>
        /\ ~BeginsWithSelect(sql_call.sql) =>
              /\ sql_call.returned
              /\ sql_call.exc = ""
              /\ sql_call.result # <<>>

\* a SELECT from a table the database does not have
C16_Witness ==
    /\ sql_call.n > 0
    /\ sql_call.sql = <<"select", " * from nowhere">>
    /\ ~sql_call.returned
    /\ sql_call.exc = "OperationalError"

----------------------------------------------------------------------------
(* C17: the reset at the start of a turn *)

\* C17: when a turn starts, also on a thread whose checkpoint holds the
\* state of earlier turns, iteration is 0, collected_results, todo and
\* rag_sources are empty and reflection is "": that is what the router
\* reads, and the first plan of the turn reads the same except for
\* reflection, which holds the intent the router of this turn wrote.
C17_TurnStartReset ==
    /\ (last_node = "START" \/ "router" \in active) =>
          /\ iteration = 0
          /\ collected_results = <<>>
          /\ todo = <<>>
          /\ rag_sources = <<>>
          /\ reflection = ""
    /\ (last_node = "router" /\ "plan" \in active) =>
          /\ iteration = 0
          /\ collected_results = <<>>
          /\ todo = <<>>
          /\ rag_sources = <<>>
          /\ reflection \in Intents

\* the second turn starts on a thread whose first turn ran query_rag, and
\* was ended after an unsatisfied reflection
C17_Witness ==
    /\ last_node = "START"
    /\ CountType(messages, "human") = 2
    /\ reflection_satisfied = <<FALSE>>
    /\ \E i \in 1..Len(messages) :
          /\ messages[i].type = "tool"
          /\ WellFormedRag(messages[i])

----------------------------------------------------------------------------
(* C18: max_iterations is fixed for the turn *)

\* C18: while a turn is running no step changes the turn's max_iterations
\* or depth: not a node of the graph, and not a depth change in the GUI,
\* which writes the GUI's initial_state only; the turn started next takes
\* its depth and max_iterations from the initial_state of that moment.
C18_MaxIterationsFixed ==
    [][ /\ active # {} => (max_iterations' = max_iterations /\ depth' = depth)
        /\ initial_state' # initial_state =>
              (max_iterations' = max_iterations /\ depth' = depth)
        /\ (active = {} /\ active' # {}) =>
              /\ max_iterations' = initial_state.max_iterations
              /\ depth' = initial_state.depth ]_vars

\* a turn started at depth 3 is between plan and reflect while the selector
\* is at depth 1
C18_Witness ==
    /\ "reflect" \in active
    /\ max_iterations = 6
    /\ depth = 3
    /\ initial_state = [depth |-> 1, max_iterations |-> 2]

----------------------------------------------------------------------------
(* C19: the message history is append-only *)

\* C19: every step leaves the earlier history as a prefix of the later one;
\* the start of a turn appends one user message; plan, synthesize and
\* respond append one assistant message each; router, collect_results and
\* reflect leave the history as it is.
C19_AppendOnly ==
    [][ /\ Len(messages') >= Len(messages)
        /\ SubSeq(messages', 1, Len(messages)) = messages
        /\ last_node' = "START" =>
              /\ Len(messages') = Len(messages) + 1
              /\ messages'[Len(messages')].type = "human"
        /\ last_node' \in {"plan", "synthesize", "respond"} =>
              /\ Len(messages') = Len(messages) + 1
              /\ messages'[Len(messages')].type = "ai"
        /\ last_node' \in {"router", "collect_results", "reflect"} =>
              messages' = messages ]_vars

\* the second turn of a thread ends with a synthesized answer, after tool
\* rounds in both turns
C19_Witness ==
    /\ last_node = "synthesize"
    /\ CountType(messages, "human") = 2
    /\ ToolResults(messages) >= 2
    /\ Len(messages) >= 8
    /\ messages[1].type = "human"

----------------------------------------------------------------------------
(* C30: the connections of query_sql *)

\* C30 as stated: when a query_sql call has ended, by a return or by an
\* exception, every connection it opened has been closed; a rejected call
\* opened none.
C30_ConnectionsClosed ==
    sql_call.n > 0 =>
        /\ sql_call.closed = sql_call.opened
        /\ ~BeginsWithSelect(sql_call.sql) => sql_call.opened = 0

----------------------------------------------------------------------------
(* C22, C24, C25, C27: rounds, iteration, the sources section, the order
   of the collected fragments *)

\* the assistant messages of the current turn
TurnAIs(msgs) ==
    LET last_human == LastHumanIndex(msgs)
    IN  {i \in (last_human + 1)..Len(msgs) : msgs[i].type = "ai"}

\* runs of the execute node in the current turn: one for each assistant
\* message of the turn with tool invocations, the one still waiting for
\* execute excepted
ExecuteRuns ==
    Cardinality({i \in TurnAIs(messages) : messages[i].tool_calls # <<>>})
    - (IF "execute" \in active THEN 1 ELSE 0)

PlanRuns ==
    Cardinality(TurnAIs(messages))
    - (IF last_node \in {"synthesize", "respond"} THEN 1 ELSE 0)

\* C24: in every state of a turn iteration is the number of times plan has
\* run in the turn, each run having appended one assistant message.
C24_IterationCountsPlans ==
    messages # <<>> => iteration = PlanRuns

\* plan asked for no tool and the turn went straight to synthesize
C24_Witness ==
    /\ last_node = "synthesize"
    /\ iteration = 1
    /\ TurnTools(messages) = {}
    /\ CountType(messages, "human") = 2

\* C25: the answer synthesize appends is the model's text followed by the
\* sources section if rag_sources is non-empty at that point, and the
\* model's text alone if it is empty.
C25_SectionIffSources ==
    last_node = "synthesize" =>
        LET content == messages[Len(messages)].content
        IN  /\ content[1] = "final answer"
            /\ (rag_sources # <<>>) <=>
                  (Len(content) > 1 /\ content[2] = SourcesHeading)
            /\ (rag_sources = <<>>) <=> (content = <<"final answer">>)

\* a turn whose only query_rag call found no context gets no section
C25_Witness ==
    /\ last_node = "synthesize"
    /\ rag_sources = <<>>
    /\ \E i \in TurnTools(messages) :
          messages[i].name = "query_rag" /\ messages[i].content = NoContext
    /\ messages[Len(messages)].content = <<"final answer">>

\* C27 as stated: collected_results lists one fragment per collected tool
\* result of the turn in the order of the tool-result messages, rounds in
\* order and each round in invocation order.
C27_ChronologicalOrder ==
    LET seen == Pick(messages, CollectedTools(messages))
    IN  collected_results = [i \in 1..Len(seen) |-> ExpectedFragment(seen[i])]

----------------------------------------------------------------------------
(* Rendering of the final answer *)

\* a block body that is a JSON array of objects
IsArrayOfObjects(part) ==
    LET parsed == json_loads_body(part)
    IN  /\ parsed.ok
        /\ parsed.value.kind = "array"
        /\ parsed.value.items # <<>>
        /\ \A r \in 1..Len(parsed.value.items) : parsed.value.items[r].kind = "object"

\* the block bodies of an answer text
BlocksOf(text) ==
    LET parts == split_tabledata(text)
    IN  [b \in 1..(Len(parts) \div 2) |-> parts[2 * b]]

\* the answer whose rendering is examined
RenderedAnswer == messages[Len(messages)].content

\* C23: rendering never raises, and every block body that is not a JSON array
\* of objects, with all text outside the tags, is rendered as prose: no table
\* is produced for a body that is not an array of objects, and no answer is
\* left with an exception instead of a panel.
C23_RenderingTolerant ==
    last_node = "END"
    => /\ error = ""
       /\ \A b \in 1..Len(BlocksOf(RenderedAnswer)) :
            ~IsArrayOfObjects(BlocksOf(RenderedAnswer)[b])
            => \E p \in 1..Len(turn_panels) : \E r \in 1..Len(turn_panels[p].body) :
                 /\ turn_panels[p].body[r].kind = "markdown"
                 /\ turn_panels[p].body[r].text = strip(BlocksOf(RenderedAnswer)[b])

----------------------------------------------------------------------------
(* The reflection field between router, reflect and plan *)

\* the feedback texts reflect writes
ReflectFeedback == {d.feedback : d \in ReflectDecisions}

\* C26: whenever plan puts "reflection from previous iteration" text in its
\* context, the node that ran just before it is reflect, in the same turn,
\* and the text is the feedback reflect wrote: never the intent tag of router
\* and never a value left from an earlier turn. While the context holds such
\* text the turn is past its first plan run.
C26_NoIntentInPlanning ==
    [][(last_node' = "plan" /\ last_node # "plan" /\ plan_context' # <<>>)
       => /\ last_node = "reflect"
          /\ plan_context' = <<reflection>>
          /\ reflection \in ReflectFeedback
          /\ reflection \notin Intents
          /\ iteration > 0]_vars

\* in a second turn plan runs again after reflect and carries its feedback,
\* the reflection field having held an intent tag and the first turn's
\* feedback before
C26_Witness ==
    /\ last_node = "plan"
    /\ plan_context # <<>>
    /\ plan_context[1] \in ReflectFeedback
    /\ iteration = 2
    /\ CountType(messages, "human") = 2

----------------------------------------------------------------------------
(* The GUI worker and its callbacks *)

\* C28: at most one agent turn is in flight at any time: while a worker is
\* streaming a turn the input stays disabled, and no second stream is started
\* beside it.
C28_OneTurnInFlight ==
    /\ worker.streams <= 1
    /\ worker.streams = 1 => input_disabled

\* the assistant boxes of the tool-call-free assistant messages a turn
\* appended to the thread it ran on
TurnBoxes(w) ==
    LET all_messages == ThreadMessages(w.thread_id)
    IN  write_new_messages(SubSeq(all_messages, w.prev_count + 1, Len(all_messages)), 1).panels

\* C29: when a turn finishes, the assistant messages written to the chat log
\* are exactly the new tool-call-free assistant messages the turn appended to
\* the thread it ran on, whichever thread is selected at that moment.
C29_RendersOwnTurn ==
    [][(worker.streams = 1 /\ worker'.streams = 0 /\ error = "")
       => turn_panels' = turn_panels \o TurnBoxes(worker)]_vars

\* C21: when a node raises during a turn, the turn is abandoned with the
\* message history and every state channel as the completed nodes left them;
\* the worker reports the error as an Error notice and the input is enabled
\* again; and the question submitted after a failed turn is appended to the
\* unchanged history and run from the router.
C21_FailureKeepsState ==
    [][/\ (active # {} /\ error = "" /\ error' # "")
          => /\ active' = {}
             /\ messages' = messages
             /\ UNCHANGED <<depth, max_iterations, iteration, collected_results, todo,
                            reflection, reflection_satisfied, rag_sources>>
       /\ (worker.streams = 1 /\ error # "" /\ worker'.streams = 0)
          => /\ turn_panels' = Append(turn_panels, ErrorPanel(error))
             /\ ~input_disabled'
             /\ messages' = messages
       /\ (worker.streams = 0 /\ error # "" /\ worker'.streams = 1)
          => /\ IsPrefix(messages, messages')
             /\ messages' = Append(messages, HumanMessage(Question))
             /\ active' = {"router"}
             /\ error' = ""]_vars

\* the first turn failed after plan had written its tool-call message, which
\* is still in the history; the next question was accepted, ran to its end
\* and its answer was written to the chat log
C21_Witness ==
    /\ Len(messages) >= 4
    /\ messages[2].type = "ai"
    /\ messages[2].tool_calls # <<>>
    /\ messages[3].type = "human"
    /\ messages[Len(messages)].type = "ai"
    /\ active = {}
    /\ error = ""
    /\ worker.streams = 0
    /\ turn_panels # <<>>
    /\ turn_panels[Len(turn_panels)].title = "Assistant"

====
